---- MODULE Spec2Model ----
(***************************************************************************)
(* Model of core/domain/stats_jobs_one_off.py: the two one-off audit jobs  *)
(* StatisticsAudit and AnswersAudit, each a map step run once per record,  *)
(* a grouping of the emitted (key, value) pairs by key, and a reduce step  *)
(* run once per key on the list of that key's values.                      *)
(*                                                                         *)
(* Strings the code only compares or prints are TLA+ strings.  Strings the *)
(* code indexes and slices (the answer-log ids) are sequences of           *)
(* one-character strings.  A value the job framework stringifies after     *)
(* map and reduce reads back with ast.literal_eval is kept as the record   *)
(* it denotes.  A formatted line is the record of its format and of the    *)
(* values formatted into it.                                               *)
(***************************************************************************)
EXTENDS Integers, Sequences, FiniteSets, TLC

VARIABLES
    items,      \* the records not yet mapped (a sequence, in storage order)
    shuffle,    \* the (key, value) pairs emitted so far, in emission order
    last,       \* the latest map call: its record and what it yielded
    output,     \* the reduce calls made so far: [key, values, lines, raised] each
    failed      \* the records whose map call raised

vars == <<items, shuffle, last, output, failed>>

----------------------------------------------------------------------------
(* Bounds of the model *)

MaxItems == 2      \* records in one run of a job
MaxValues == 2     \* values in a group handed directly to a reducer
MaxHit == 1        \* largest hit count of a state in an annotation record
MaxIdLen == 5      \* longest answer-log id drawn character by character

----------------------------------------------------------------------------
(* Sequence helpers *)

RECURSIVE Concat(_)
Concat(ss) == IF ss = <<>> THEN <<>> ELSE Head(ss) \o Concat(Tail(ss))

Range(s) == {s[i] : i \in 1..Len(s)}

\* The sequences of length at most n over S.
SeqsUpTo(S, n) == UNION {[1..k -> S] : k \in 0..n}

\* The orders in which the elements of the sequence s can be presented.
Perms(s) ==
    {[i \in 1..Len(s) |-> s[p[i]]] :
        p \in {q \in [1..Len(s) -> 1..Len(s)] : \A i, j \in 1..Len(s) : q[i] = q[j] => i = j}}

\* How many times x occurs in s.
Occurrences(s, x) == Cardinality({i \in 1..Len(s) : s[i] = x})

\* s and t hold the same lines the same number of times (equal once sorted).
SameSorted(s, t) ==
    /\ Len(s) = Len(t)
    /\ \A i \in 1..Len(s) : Occurrences(s, s[i]) = Occurrences(t, s[i])

----------------------------------------------------------------------------
(* StatisticsAudit *)

None == "<None>"
VERSION_ALL == "all"
STATE_COUNTER_ERROR_KEY == "State Counter ERROR"

StateNames == <<"A">>
Counts == {0 - 1, 0, 1}
HitCounts == 0..MaxHit
HitMaps == UNION {[S -> HitCounts] : S \in SUBSET Range(StateNames)}

\* A formatted line: the format and the values formatted into it.
Line(fmt, key, version, state, x, y) ==
    [fmt |-> fmt, key |-> key, version |-> version, state |-> state, x |-> x, y |-> y]

\* A value passed through unformatted.
Raw(value) == [raw |-> value]

\* StatisticsAudit.map with the count test made "<= 0".
StatisticsAudit_map_NonPositive(item) ==
    IF item.kind = "StateCounterModel"
    THEN IF item.first_entry_count <= 0
         THEN << [key |-> STATE_COUNTER_ERROR_KEY,
                  value |-> Line("Less than 0: %s %d", item.key, "", "",
                                 item.first_entry_count, 0)] >>
         ELSE <<>>
    ELSE IF item.exploration_id # None
         THEN << [key |-> item.exploration_id,
                  value |-> [version |-> item.version,
                             starts |-> item.num_starts,
                             completions |-> item.num_completions,
                             state_hit |-> item.state_hit_counts]] >>
         ELSE <<>>

\* StatisticsAudit.map: the (key, value) pairs yielded for one record.
StatisticsAudit_map(item) ==
    IF item.kind = "StateCounterModel"
    THEN IF item.first_entry_count < 0
         THEN << [key |-> STATE_COUNTER_ERROR_KEY,
                  value |-> Line("Less than 0: %s %d", item.key, "", "",
                                 item.first_entry_count, 0)] >>
         ELSE <<>>
    ELSE IF item.exploration_id # None
         THEN << [key |-> item.exploration_id,
                  value |-> [version |-> item.version,
                             starts |-> item.num_starts,
                             completions |-> item.num_completions,
                             state_hit |-> item.state_hit_counts]] >>
         ELSE <<>>

\* The per-value checks with the last test made ">=".
ValueLines_AtLeast(key, value) ==
    (IF value.starts < 0
     THEN << Line("Negative start count: exp_id:%s version:%s starts:%s",
                  key, value.version, "", value.starts, 0) >>
     ELSE <<>>)
    \o
    (IF value.completions < 0
     THEN << Line("Negative completion count: exp_id:%s version:%s completions:%s",
                  key, value.version, "", value.completions, 0) >>
     ELSE <<>>)
    \o
    (IF value.completions >= value.starts
     THEN << Line("Completions > starts: exp_id:%s version:%s %s>%s",
                  key, value.version, "", value.completions, value.starts) >>
     ELSE <<>>)

\* The three per-value checks of the reduce loop, in order.
ValueLines(key, value) ==
    (IF value.starts < 0
     THEN << Line("Negative start count: exp_id:%s version:%s starts:%s",
                  key, value.version, "", value.starts, 0) >>
     ELSE <<>>)
    \o
    (IF value.completions < 0
     THEN << Line("Negative completion count: exp_id:%s version:%s completions:%s",
                  key, value.version, "", value.completions, 0) >>
     ELSE <<>>)
    \o
    (IF value.completions > value.starts
     THEN << Line("Completions > starts: exp_id:%s version:%s %s>%s",
                  key, value.version, "", value.completions, value.starts) >>
     ELSE <<>>)

\* The accumulators before the loop.
Accumulators0 ==
    [all_starts |-> 0, all_completions |-> 0, all_state_hit |-> <<>>,
     sum_starts |-> 0, sum_completions |-> 0, sum_state_hit |-> <<>>]

\* all_state_hit replaced by the value's map, its earlier entries dropped.
AssignHits_Replace(all_state_hit, state_hit) == state_hit

\* all_state_hit[state_name] = count, for every entry of the value's map.
AssignHits(all_state_hit, state_hit) ==
    [s \in DOMAIN all_state_hit \cup DOMAIN state_hit |->
        IF s \in DOMAIN state_hit THEN state_hit[s] ELSE all_state_hit[s]]

\* sum_state_hit[state_name] += count, for every entry of the value's map.
AddHits(sum_state_hit, state_hit) ==
    [s \in DOMAIN sum_state_hit \cup DOMAIN state_hit |->
        (IF s \in DOMAIN sum_state_hit THEN sum_state_hit[s] ELSE 0)
        + (IF s \in DOMAIN state_hit THEN state_hit[s] ELSE 0)]

\* One iteration of the reduce loop on the accumulators.
Accumulate(acc, value) ==
    IF value.version = VERSION_ALL
    THEN [acc EXCEPT !.all_starts = value.starts,
                     !.all_completions = value.completions,
                     !.all_state_hit = AssignHits(acc.all_state_hit, value.state_hit)]
    ELSE [acc EXCEPT !.sum_starts = acc.sum_starts + value.starts,
                     !.sum_completions = acc.sum_completions + value.completions,
                     !.sum_state_hit = AddHits(acc.sum_state_hit, value.state_hit)]

\* The accumulators after the loop over values.
RECURSIVE Accumulated(_, _)
Accumulated(acc, values) ==
    IF values = <<>> THEN acc
    ELSE Accumulated(Accumulate(acc, Head(values)), Tail(values))

\* The lines of the two comparisons of the sums with the ALL value.
SumLines(key, acc) ==
    (IF acc.sum_starts # acc.all_starts
     THEN << Line("Non-all != all for starts: exp_id:%s sum: %s all: %s",
                  key, "", "", acc.sum_starts, acc.all_starts) >>
     ELSE <<>>)
    \o
    (IF acc.sum_completions # acc.all_completions
     THEN << Line("Non-all != all for completions: exp_id:%s sum: %s all: %s",
                  key, "", "", acc.sum_completions, acc.all_completions) >>
     ELSE <<>>)

\* The line of one state without the test that the ALL count is not 0.
StateLine_NoZeroTest(key, acc, state_name) ==
    IF state_name \notin DOMAIN acc.sum_state_hit
    THEN << Line("state hit count not same exp_id:%s state:%s, all:%s sum: null",
                 key, "", state_name, acc.all_state_hit[state_name], 0) >>
    ELSE IF acc.all_state_hit[state_name] # acc.sum_state_hit[state_name]
         THEN << Line("state hit count not same exp_id: %s state: %s all: %s sum:%s",
                      key, "", state_name, acc.all_state_hit[state_name],
                      acc.sum_state_hit[state_name]) >>
         ELSE <<>>

\* The line, if any, of one state of all_state_hit.  Reading the defaultdict
\* sum_state_hit at an absent state gives 0.
StateLine(key, acc, state_name) ==
    IF state_name \notin DOMAIN acc.sum_state_hit /\ acc.all_state_hit[state_name] # 0
    THEN << Line("state hit count not same exp_id:%s state:%s, all:%s sum: null",
                 key, "", state_name, acc.all_state_hit[state_name], 0) >>
    ELSE IF acc.all_state_hit[state_name] #
              (IF state_name \in DOMAIN acc.sum_state_hit
               THEN acc.sum_state_hit[state_name] ELSE 0)
         THEN << Line("state hit count not same exp_id: %s state: %s all: %s sum:%s",
                      key, "", state_name, acc.all_state_hit[state_name],
                      acc.sum_state_hit[state_name]) >>
         ELSE <<>>

\* The loop over the states of all_state_hit.
StateLines(key, acc) ==
    Concat([i \in 1..Len(StateNames) |->
        IF StateNames[i] \in DOMAIN acc.all_state_hit
        THEN StateLine(key, acc, StateNames[i]) ELSE <<>>])

\* StatisticsAudit.reduce: the lines yielded for one key and its values.
StatisticsAudit_reduce(key, values) ==
    IF key = STATE_COUNTER_ERROR_KEY
    THEN [i \in 1..Len(values) |-> Raw(values[i])]
    ELSE Concat([i \in 1..Len(values) |-> ValueLines(key, values[i])])
         \o SumLines(key, Accumulated(Accumulators0, values))
         \o StateLines(key, Accumulated(Accumulators0, values))

----------------------------------------------------------------------------
(* Python string operations, on sequences of one-character strings.        *)
(* Positions are Python's: the first character is at position 0.           *)

Min(S) == CHOOSE x \in S : \A y \in S : x <= y

\* c in s
Contains(s, c) == \E i \in 1..Len(s) : s[i] = c

\* s.index(c), where c is in s (s.index raises ValueError where it is not)
Index(s, c) == Min({i \in 1..Len(s) : s[i] = c}) - 1

\* A slice bound as Python clamps it: negative bounds count from the end.
Clamp(s, n) ==
    IF n < 0 THEN (IF Len(s) + n < 0 THEN 0 ELSE Len(s) + n)
    ELSE IF n > Len(s) THEN Len(s) ELSE n

\* s[lo:hi]
Slice(s, lo, hi) == SubSeq(s, Clamp(s, lo) + 1, Clamp(s, hi))

\* s[lo:]
SliceFrom(s, lo) == SubSeq(s, Clamp(s, lo) + 1, Len(s))

\* s[:hi]
SliceTo(s, hi) == SubSeq(s, 1, Clamp(s, hi))

----------------------------------------------------------------------------
(* AnswersAudit *)

HANDLER_NAME_COUNTER_KEY == "HandlerCounter"
HANDLER_FUZZY_RULE_COUNTER_KEY == "FuzzyRuleCounter"
HANDLER_DEFAULT_RULE_COUNTER_KEY == "DefaultRuleCounter"
HANDLER_STANDARD_RULE_COUNTER_KEY == "StandardRuleCounter"
HANDLER_ERROR_RULE_COUNTER_KEY == "ErrorRuleCounter"

FuzzyMatches == <<"F", "u", "z", "z", "y", "M", "a", "t", "c", "h", "e", "s">>
Default == <<"D", "e", "f", "a", "u", "l", "t">>

\* The dot count of a parser that splits at every single '.'.
get_consecutive_dot_count_Single(string, idx) == 1

\* AnswersAudit._get_consecutive_dot_count
get_consecutive_dot_count(string, idx) ==
    IF \E i \in idx..(Len(string) - 1) : string[i + 1] # "."
    THEN Min({i \in idx..(Len(string) - 1) : string[i + 1] # "."}) - idx
    ELSE 0

\* period_idx after one parse step of map on item_id, which holds a '.':
\* item_id.index('.') plus the dot count there, minus one.
period_idx(item_id) ==
    Index(item_id, ".") + (get_consecutive_dot_count(item_id, Index(item_id, ".")) - 1)

\* item_id after one parse step: item_id[period_idx+1:]
Rest(item_id) == SliceFrom(item_id, period_idx(item_id) + 1)

\* The pair map yields for the rule string left after the handler name.
RulePair(rule_str) ==
    IF rule_str = FuzzyMatches
    THEN [key |-> rule_str,
          value |-> [reduce_type |-> HANDLER_FUZZY_RULE_COUNTER_KEY]]
    ELSE IF rule_str = Default
    THEN [key |-> rule_str,
          value |-> [reduce_type |-> HANDLER_DEFAULT_RULE_COUNTER_KEY]]
    ELSE IF Contains(rule_str, "(") /\ rule_str[Len(rule_str)] = ")"
    THEN [key |-> Slice(rule_str, 0, Index(rule_str, "(")),
          value |-> [reduce_type |-> HANDLER_STANDARD_RULE_COUNTER_KEY,
                     rule_str |-> rule_str,
                     rule_args |-> Slice(rule_str, Index(rule_str, "(") + 1, 0 - 1)]]
    ELSE [key |-> rule_str,
          value |-> [reduce_type |-> HANDLER_ERROR_RULE_COUNTER_KEY]]

\* The segment one parse step reads: item_id[:period_idx]
Segment(item_id) == SliceTo(item_id, period_idx(item_id))

\* The pair map yields for the handler name.
HandlerPair(id, item_id) ==
    [key |-> Segment(item_id),
     value |-> [reduce_type |-> HANDLER_NAME_COUNTER_KEY, rule_spec_str |-> id]]

\* AnswersAudit.map: the pairs yielded for one record, and whether the call
\* raised (index('.') raises ValueError on a string without '.').
AnswersAudit_map(item) ==
    IF ~Contains(item.id, ".")
    THEN [raised |-> TRUE, pairs |-> <<>>]
    ELSE IF ~Contains(Rest(item.id), ".")
    THEN [raised |-> TRUE, pairs |-> <<>>]
    ELSE IF ~Contains(Rest(Rest(item.id)), ".")
    THEN [raised |-> TRUE, pairs |-> <<>>]
    ELSE [raised |-> FALSE,
          pairs |-> << HandlerPair(item.id, Rest(Rest(item.id))),
                       RulePair(Rest(Rest(Rest(item.id)))) >>]

\* A line of the answer audit: the format and the values formatted into it.
ALine(fmt, key, count, strs) == [fmt |-> fmt, key |-> key, count |-> count, strs |-> strs]

InternalError1 == ALine("Internal error 1", <<>>, 0, <<>>)

\* The first loop of reduce: the reduce_type it settles on (None where
\* there is no value) and the lines it yields.
RECURSIVE FirstPass(_, _)
FirstPass(st, values) ==
    IF values = <<>> THEN st
    ELSE FirstPass(
            IF st.reduce_type # None /\ st.reduce_type # Head(values).reduce_type
            THEN [st EXCEPT !.lines = Append(st.lines, InternalError1)]
            ELSE IF st.reduce_type = None
                 THEN [st EXCEPT !.reduce_type = Head(values).reduce_type]
                 ELSE st,
            Tail(values))

reduce_type_of(values) == FirstPass([reduce_type |-> None, lines |-> <<>>], values).reduce_type

\* The second part of reduce: the summary line, or a KeyError where a value
\* of a handler group has no 'rule_spec_str'.
Summary(key, values) ==
    LET reduce_type == reduce_type_of(values)
        reduce_count == Len(values)
    IN  IF reduce_type = HANDLER_NAME_COUNTER_KEY
        THEN IF \A i \in 1..Len(values) : "rule_spec_str" \in DOMAIN values[i]
             THEN [raised |-> FALSE,
                   lines |-> << ALine("Found handler \"%s\" %d time(s), ALL RULE SPEC STRINGS: \n%s",
                                      key, reduce_count,
                                      [i \in 1..Len(values) |-> values[i].rule_spec_str]) >>]
             ELSE [raised |-> TRUE, lines |-> <<>>]
        ELSE IF reduce_type = HANDLER_FUZZY_RULE_COUNTER_KEY
        THEN [raised |-> FALSE,
              lines |-> << ALine("Found fuzzy rules %d time(s)", <<>>, reduce_count, <<>>) >>]
        ELSE IF reduce_type = HANDLER_DEFAULT_RULE_COUNTER_KEY
        THEN [raised |-> FALSE,
              lines |-> << ALine("Found default rules %d time(s)", <<>>, reduce_count, <<>>) >>]
        ELSE IF reduce_type = HANDLER_STANDARD_RULE_COUNTER_KEY
        THEN [raised |-> FALSE,
              lines |-> << ALine("Found rule type \"%s\" %d time(s)", key, reduce_count, <<>>) >>]
        ELSE IF reduce_type = HANDLER_ERROR_RULE_COUNTER_KEY
        THEN [raised |-> FALSE,
              lines |-> << ALine("Encountered invalid rule string %d time(s) (is it too long?): \"%s\"",
                                 key, reduce_count, <<>>) >>]
        ELSE [raised |-> FALSE,
              lines |-> << ALine("Internal error 2", <<>>, 0, <<>>) >>]

\* AnswersAudit.reduce: the lines yielded for one key and its values, and
\* whether the call raised after yielding them.
AnswersAudit_reduce(key, values) ==
    [raised |-> Summary(key, values).raised,
     lines |-> FirstPass([reduce_type |-> None, lines |-> <<>>], values).lines
               \o Summary(key, values).lines]

----------------------------------------------------------------------------
(* The job: map once per record, group by key, reduce once per key.        *)

NoCall == [op |-> "none"]

\* The keys emitted so far, each once, in the order of their first emission.
RECURSIVE KeysOf(_)
KeysOf(pairs) ==
    IF pairs = <<>> THEN <<>>
    ELSE LET front == KeysOf(SubSeq(pairs, 1, Len(pairs) - 1))
             k == pairs[Len(pairs)].key
         IN  IF \E i \in 1..Len(front) : front[i] = k THEN front ELSE Append(front, k)

\* The values emitted under key, in emission order.
RECURSIVE GroupOf(_, _)
GroupOf(pairs, key) ==
    IF pairs = <<>> THEN <<>>
    ELSE IF Head(pairs).key = key
         THEN <<Head(pairs).value>> \o GroupOf(Tail(pairs), key)
         ELSE GroupOf(Tail(pairs), key)

\* map is called on the next record.
StatsMap ==
    /\ items # <<>>
    /\ items' = Tail(items)
    /\ shuffle' = shuffle \o StatisticsAudit_map(Head(items))
    /\ last' = [op |-> "map", item |-> Head(items),
                pairs |-> StatisticsAudit_map(Head(items)), raised |-> FALSE]
    /\ UNCHANGED <<output, failed>>

\* Every record is mapped: reduce is called on the next key, with that key's
\* values.  A record emits at most one pair and the records come in any
\* order, so the values in emission order are values in any order.
StatsReduce ==
    /\ items = <<>>
    /\ Len(output) < Len(KeysOf(shuffle))
    /\ LET key == KeysOf(shuffle)[Len(output) + 1]
           values == GroupOf(shuffle, key)
       IN  output' = Append(output,
               [key |-> key, values |-> values,
                lines |-> StatisticsAudit_reduce(key, values), raised |-> FALSE])
    /\ UNCHANGED <<items, shuffle, last, failed>>

\* map is called on the next record; a call that raises emits nothing.
AnswersMap ==
    /\ items # <<>>
    /\ items' = Tail(items)
    /\ shuffle' = shuffle \o AnswersAudit_map(Head(items)).pairs
    /\ last' = [op |-> "map", item |-> Head(items),
                pairs |-> AnswersAudit_map(Head(items)).pairs,
                raised |-> AnswersAudit_map(Head(items)).raised]
    /\ failed' = IF AnswersAudit_map(Head(items)).raised
                 THEN Append(failed, Head(items)) ELSE failed
    /\ UNCHANGED output

\* Every record is mapped: reduce is called on the next key, with that key's
\* values in any order (a record emits two pairs, perhaps under one key).
AnswersReduce ==
    /\ items = <<>>
    /\ Len(output) < Len(KeysOf(shuffle))
    /\ LET key == KeysOf(shuffle)[Len(output) + 1]
       IN  \E values \in Perms(GroupOf(shuffle, key)) :
               output' = Append(output,
                   [key |-> key, values |-> values,
                    lines |-> AnswersAudit_reduce(key, values).lines,
                    raised |-> AnswersAudit_reduce(key, values).raised])
    /\ UNCHANGED <<items, shuffle, last, failed>>

----------------------------------------------------------------------------
(* Inputs *)

Versions == {VERSION_ALL, "1"}

\* The values map emits for the annotation records of one exploration.
AnnotationValues ==
    [version : Versions, starts : Counts, completions : Counts, state_hit : HitMaps]

StateCounterModels ==
    [kind : {"StateCounterModel"}, key : {"e1.A"}, first_entry_count : Counts]

ExplorationAnnotationsModels ==
    [kind : {"ExplorationAnnotationsModel"},
     exploration_id : {None, "e1", STATE_COUNTER_ERROR_KEY},
     version : Versions, num_starts : {1}, num_completions : {0, 1},
     state_hit_counts : {<<>>, [s \in {"A"} |-> 1]}]

\* StatisticsAudit over any records.
InitStats ==
    /\ items \in SeqsUpTo(StateCounterModels \cup ExplorationAnnotationsModels, MaxItems)
    /\ shuffle = <<>>
    /\ last = NoCall
    /\ output = <<>>
    /\ failed = <<>>

NextStats == StatsMap \/ StatsReduce

SpecStats == InitStats /\ [][NextStats]_vars

\* StatisticsAudit.reduce on any group of annotation values of one exploration.
InitStatsReduce ==
    /\ items = <<>>
    /\ shuffle \in SeqsUpTo([key : {"e1"}, value : AnnotationValues], MaxValues)
    /\ last = NoCall
    /\ output = <<>>
    /\ failed = <<>>

SpecStatsReduce == InitStatsReduce /\ [][StatsReduce]_vars

\* Answer-log ids: exploration id, state name, handler name and rule string
\* joined by '.', a state name that ends in '.' among them.
Dot == <<".">>
ExplorationIds == {<<"e">>}
StateSegments == {<<"s">>, <<"s", ".">>}
HandlerNames == {<<"h">>, Default}
RuleStrs == {Default, FuzzyMatches, <<"E", "q", "(", "x", ")">>, <<"E", "q">>}

JoinedIds ==
    {e \o Dot \o s \o Dot \o h \o Dot \o r :
        e \in ExplorationIds, s \in StateSegments, h \in HandlerNames, r \in RuleStrs}

\* The id "12..3.state.Handler.Equals(x)".
DottedId == <<"1", "2", ".", ".", "3", ".", "s", "t", "a", "t", "e", ".", "H", "a", "n", "d", "l", "e", "r", ".", "E", "q", "u", "a", "l", "s", "(", "x", ")">>

\* Every string of at most MaxIdLen characters over a small alphabet.
ShortIds == SeqsUpTo({"a", ".", "(", ")"}, MaxIdLen)

\* AnswersAudit over any records whose ids are joined from segments, and a
\* record whose id has too few segments.
InitAnswers ==
    /\ items \in SeqsUpTo([id : JoinedIds \cup {<<"e", ".", "s">>}], MaxItems)
    /\ shuffle = <<>>
    /\ last = NoCall
    /\ output = <<>>
    /\ failed = <<>>

NextAnswers == AnswersMap \/ AnswersReduce

SpecAnswers == InitAnswers /\ [][NextAnswers]_vars

\* AnswersAudit over one record with any id.
InitAnswersOne ==
    /\ items \in {<<item>> : item \in [id : ShortIds \cup JoinedIds \cup {DottedId}]}
    /\ shuffle = <<>>
    /\ last = NoCall
    /\ output = <<>>
    /\ failed = <<>>

SpecAnswersOne == InitAnswersOne /\ [][NextAnswers]_vars

----------------------------------------------------------------------------
(* Properties of StatisticsAudit *)

AllsOf(values) == SelectSeq(values, LAMBDA v : v.version = VERSION_ALL)
NonAllsOf(values) == SelectSeq(values, LAMBDA v : v.version # VERSION_ALL)

RECURSIVE SumStarts(_)
SumStarts(values) ==
    IF values = <<>> THEN 0 ELSE Head(values).starts + SumStarts(Tail(values))

RECURSIVE SumCompletions(_)
SumCompletions(values) ==
    IF values = <<>> THEN 0 ELSE Head(values).completions + SumCompletions(Tail(values))

\* The summed hit count of a state, a value without the state counting 0.
RECURSIVE SumHits(_, _)
SumHits(values, s) ==
    IF values = <<>> THEN 0
    ELSE (IF s \in DOMAIN Head(values).state_hit THEN Head(values).state_hit[s] ELSE 0)
         + SumHits(Tail(values), s)

HoldsState(values, s) == \E i \in 1..Len(values) : s \in DOMAIN values[i].state_hit

\* The lines about state s.
LinesOfState(lines, s) == SelectSeq(lines, LAMBDA l : l.state = s)

\* The lines of the comparisons made after the loop (they name no version).
Comparisons(lines) == SelectSeq(lines, LAMBDA l : l.version = "")

\* The reduce calls on the values of an exploration.
AnnotationCalls == {k \in 1..Len(output) : output[k].key # STATE_COUNTER_ERROR_KEY}

\* C8: map on a counter record yields nothing when the count is not
\* negative, and when it is negative yields exactly one pair, under the
\* counter error key, whose message holds the record's key and count.
C8_CounterMap ==
    (last.op = "map" /\ last.item.kind = "StateCounterModel") =>
        IF last.item.first_entry_count >= 0
        THEN last.pairs = <<>>
        ELSE /\ Len(last.pairs) = 1
             /\ last.pairs[1].key = STATE_COUNTER_ERROR_KEY
             /\ last.pairs[1].value.key = last.item.key
             /\ last.pairs[1].value.x = last.item.first_entry_count

C8_Witness ==
    /\ last.op = "map"
    /\ last.item.kind = "StateCounterModel"
    /\ last.item.first_entry_count < 0
    /\ Len(last.pairs) = 1

\* C10: every value reduce passes through under the counter error key is the
\* message of a counter record with a negative count; no annotation value is
\* passed through as a counter diagnostic.
C10_CounterKeyHoldsCounterMessages ==
    \A k \in 1..Len(output) :
        output[k].key = STATE_COUNTER_ERROR_KEY =>
            \A i \in 1..Len(output[k].values) :
                \E c \in StateCounterModels :
                    /\ c.first_entry_count < 0
                    /\ <<[key |-> STATE_COUNTER_ERROR_KEY, value |-> output[k].values[i]]>>
                           = StatisticsAudit_map(c)

\* The values of a group with every ALL value but the last removed.
KeepLastAll(values) ==
    NonAllsOf(values) \o <<AllsOf(values)[Len(AllsOf(values))]>>

\* C5 as stated: with several ALL values in a group, the comparisons are
\* those of the group without the earlier ALL values.
C5_LastAllWins ==
    \A k \in AnnotationCalls :
        Len(AllsOf(output[k].values)) > 1 =>
            Comparisons(output[k].lines) =
                Comparisons(StatisticsAudit_reduce(output[k].key,
                                                   KeepLastAll(output[k].values)))

\* The hit map that gives each state the count of the last value holding it.
LatestHits(alls) ==
    [s \in UNION {DOMAIN alls[i].state_hit : i \in 1..Len(alls)} |->
        LET at == CHOOSE i \in 1..Len(alls) :
                      /\ s \in DOMAIN alls[i].state_hit
                      /\ \A j \in (i + 1)..Len(alls) : s \notin DOMAIN alls[j].state_hit
        IN  alls[at].state_hit[s]]

\* One ALL value in place of several: the starts and completions of the last,
\* and for each state the hit count of the last ALL value holding that state.
MergedAll(alls) ==
    [version |-> VERSION_ALL,
     starts |-> alls[Len(alls)].starts,
     completions |-> alls[Len(alls)].completions,
     state_hit |-> LatestHits(alls)]

\* C5 as amended: with several ALL values in a group, the last one wins for
\* starts and completions, and for each state the hit count compared is that
\* of the last ALL value whose hit map holds the state.
C5_LastAllWinsPerState ==
    \A k \in AnnotationCalls :
        Len(AllsOf(output[k].values)) > 1 =>
            Comparisons(output[k].lines) =
                Comparisons(StatisticsAudit_reduce(output[k].key,
                    NonAllsOf(output[k].values) \o <<MergedAll(AllsOf(output[k].values))>>))

\* reduce has run on a group whose earlier ALL value holds a state that the
\* last ALL value does not.
C5_Witness ==
    \E k \in AnnotationCalls :
        LET alls == AllsOf(output[k].values)
        IN  /\ Len(alls) > 1
            /\ DOMAIN alls[1].state_hit # {}
            /\ DOMAIN alls[Len(alls)].state_hit = {}
            /\ Comparisons(output[k].lines) # <<>>

\* C6: for every state of the ALL hit map that no other version holds, reduce
\* yields no line about the state when its ALL count is 0 and exactly one
\* line about it otherwise.
C6_AbsentState ==
    \A k \in AnnotationCalls :
        LET alls == AllsOf(output[k].values)
        IN  \A s \in DOMAIN LatestHits(alls) :
                ~HoldsState(NonAllsOf(output[k].values), s) =>
                    Len(LinesOfState(output[k].lines, s)) =
                        (IF LatestHits(alls)[s] = 0 THEN 0 ELSE 1)

C6_Witness ==
    \E k \in AnnotationCalls :
        /\ Len(AllsOf(output[k].values)) = 1
        /\ NonAllsOf(output[k].values) # <<>>
        /\ \E s \in DOMAIN AllsOf(output[k].values)[1].state_hit :
               /\ ~HoldsState(NonAllsOf(output[k].values), s)
               /\ AllsOf(output[k].values)[1].state_hit[s] = 0
               /\ LinesOfState(output[k].lines, s) = <<>>

\* The group has exactly one ALL value, every value has
\* 0 <= completions <= starts, and the other versions sum to the ALL value.
Consistent(values) ==
    /\ Len(AllsOf(values)) = 1
    /\ \A i \in 1..Len(values) :
           0 <= values[i].completions /\ values[i].completions <= values[i].starts
    /\ SumStarts(NonAllsOf(values)) = AllsOf(values)[1].starts
    /\ SumCompletions(NonAllsOf(values)) = AllsOf(values)[1].completions
    /\ \A s \in DOMAIN AllsOf(values)[1].state_hit :
           SumHits(NonAllsOf(values), s) = AllsOf(values)[1].state_hit[s]

\* C7: reduce yields no line for a consistent group.
C7_ConsistentGroupSilent ==
    \A k \in AnnotationCalls :
        Consistent(output[k].values) => output[k].lines = <<>>

C7_Witness ==
    \E k \in AnnotationCalls :
        /\ Consistent(output[k].values)
        /\ AllsOf(output[k].values)[1].starts > 0
        /\ AllsOf(output[k].values)[1].completions > 0
        /\ \E s \in DOMAIN AllsOf(output[k].values)[1].state_hit :
               AllsOf(output[k].values)[1].state_hit[s] > 0
        /\ output[k].lines = <<>>

----------------------------------------------------------------------------
(* Properties of AnswersAudit *)

\* AnswersAudit over records of one handler whose rule strings fall under
\* keys of their own.
InitAnswersOneHandler ==
    /\ items \in SeqsUpTo(
           [id : {e \o Dot \o s \o Dot \o <<"h">> \o Dot \o r :
                     e \in ExplorationIds, s \in StateSegments,
                     r \in RuleStrs \ {<<"E", "q">>}}],
           MaxItems)
    /\ shuffle = <<>>
    /\ last = NoCall
    /\ output = <<>>
    /\ failed = <<>>

SpecAnswersOneHandler == InitAnswersOneHandler /\ [][NextAnswers]_vars

\* C1: all values grouped under one key carry the same reduce kind, and
\* reduce yields no 'Internal error 1' line.
C1_OneKindPerKey ==
    \A k \in 1..Len(output) :
        /\ \A i, j \in 1..Len(output[k].values) :
               output[k].values[i].reduce_type = output[k].values[j].reduce_type
        /\ \A i \in 1..Len(output[k].lines) : output[k].lines[i] # InternalError1

\* The values whose kind differs from the first value's kind.
Mismatches(values) ==
    {i \in 1..Len(values) : values[i].reduce_type # values[1].reduce_type}

\* The format of the summary line of a reduce kind.
SummaryFmt(reduce_type) ==
    CASE reduce_type = HANDLER_NAME_COUNTER_KEY ->
             "Found handler \"%s\" %d time(s), ALL RULE SPEC STRINGS: \n%s"
      [] reduce_type = HANDLER_FUZZY_RULE_COUNTER_KEY -> "Found fuzzy rules %d time(s)"
      [] reduce_type = HANDLER_DEFAULT_RULE_COUNTER_KEY -> "Found default rules %d time(s)"
      [] reduce_type = HANDLER_STANDARD_RULE_COUNTER_KEY -> "Found rule type \"%s\" %d time(s)"
      [] reduce_type = HANDLER_ERROR_RULE_COUNTER_KEY ->
             "Encountered invalid rule string %d time(s) (is it too long?): \"%s\""

\* C2: reduce does not abort on any group: it yields one 'Internal error 1'
\* line for each value whose kind differs from the first value's, and then
\* the summary line of the first value's kind.
C2_ReduceNeverAborts ==
    \A k \in 1..Len(output) :
        LET values == output[k].values
            lines == output[k].lines
            n == Cardinality(Mismatches(values))
        IN  /\ ~output[k].raised
            /\ Len(lines) = n + 1
            /\ \A i \in 1..n : lines[i] = InternalError1
            /\ lines[n + 1].fmt = SummaryFmt(values[1].reduce_type)

Handler == <<"H", "a", "n", "d", "l", "e", "r">>
Equals == <<"E", "q", "u", "a", "l", "s">>

\* C3 as stated: map on "12..3.state.Handler.Equals(x)" reads a collection
\* id with one literal '.', the state name "state", the handler name
\* "Handler" and the rule string "Equals(x)", and yields one pair keyed
\* "Handler" and one pair keyed "Equals".
C3_DottedIdAsStated ==
    (last.op = "map" /\ last.item.id = DottedId) =>
        /\ ~last.raised
        /\ Occurrences(Segment(DottedId), ".") = 1
        /\ Segment(Rest(DottedId)) = <<"s", "t", "a", "t", "e">>
        /\ Rest(Rest(Rest(DottedId))) = <<"E", "q", "u", "a", "l", "s", "(", "x", ")">>
        /\ Len(last.pairs) = 2
        /\ last.pairs[1].key = Handler
        /\ last.pairs[2].key = Equals

\* C3 as amended: the first segment ends after the run "..": map reads the
\* collection id "12.", the state name "3", the handler name "state" and
\* the rule string "Handler.Equals(x)", and yields one pair keyed "state"
\* and one pair keyed "Handler.Equals".
C3_DottedIdParse ==
    (last.op = "map" /\ last.item.id = DottedId) =>
        /\ ~last.raised
        /\ Segment(DottedId) = <<"1", "2", ".">>
        /\ Segment(Rest(DottedId)) = <<"3">>
        /\ Rest(Rest(Rest(DottedId))) = <<"H", "a", "n", "d", "l", "e", "r", ".", "E", "q", "u", "a", "l", "s", "(", "x", ")">>
        /\ Len(last.pairs) = 2
        /\ last.pairs[1].key = <<"s", "t", "a", "t", "e">>
        /\ last.pairs[1].value.reduce_type = HANDLER_NAME_COUNTER_KEY
        /\ last.pairs[2].key = <<"H", "a", "n", "d", "l", "e", "r", ".", "E", "q", "u", "a", "l", "s">>
        /\ last.pairs[2].value.reduce_type = HANDLER_STANDARD_RULE_COUNTER_KEY

C3_Witness ==
    /\ last.op = "map"
    /\ last.item.id = DottedId
    /\ Len(last.pairs) = 2

\* C4: the lines reduce yields for a key are the same, once sorted, in
\* whatever order the values of the key are presented.
C4_OrderIndependent ==
    \A k \in 1..Len(output) :
        \A values \in Perms(output[k].values) :
            SameSorted(AnswersAudit_reduce(output[k].key, values).lines, output[k].lines)

\* C9: map on an id with fewer than three '.' raises and yields no pair.
C9_FewDelimitersRaise ==
    (last.op = "map" /\ Occurrences(last.item.id, ".") < 3) =>
        (last.raised /\ last.pairs = <<>>)

====
